---- MODULE Spec2Model ----
(***************************************************************************)
(* ArrayVector<S> of src/types/array_vector.rs: a flat data buffer plus    *)
(* the exclusive end offset of every row, with its push / clear / resize   *)
(* operations, the block codec (serialize, serialize_le, deserialize,      *)
(* deserialize_le) and row indexing.                                       *)
(*                                                                         *)
(* The element type is i16 (ShortArrayVector): the macros instantiate the  *)
(* same code for every element type, and i16 is the narrowest one whose    *)
(* encoding depends on the byte order.                                     *)
(*                                                                         *)
(* usize is the 32-bit usize of a 32-bit build target, the narrowest one   *)
(* the library builds for and the one on which a finite byte stream can    *)
(* make the running sum of deltas overflow.  A usize that is computed      *)
(* while a block is read is kept as two 16-bit limbs <<hi, lo>>, because   *)
(* it may exceed 2^31; every usize that is stored in a state is small and  *)
(* kept as a plain number.                                                 *)
(***************************************************************************)
EXTENDS Integers, Sequences, FiniteSets, TLC

(* ----------------------------- bounds --------------------------------- *)

\* most rows a vector is grown to by push
MaxRows == 2

\* most elements the data buffer is grown to by push
MaxData == 2

(* ------------------------- program constants -------------------------- *)

\* number of values of a byte (put_u8 / read_u8)
ByteRange == 256

\* number of values of a u16 (`self.len() as u16`, read_u16_le), also one usize limb
U16Range == 65536

\* pointer width of the build target, in bits
UsizeBits == 32

\* the index width serialize_le writes
SizeOfIndexData == 4

\* bytes of one element (i16)
ElemSize == 2

(* ------------------------------ inputs -------------------------------- *)

\* rows handed to push
PushRows == {<< >>, <<1>>, <<-2, 1>>}

\* lengths handed to resize: the small ones, and the first one a u16 cannot hold
ResizeLens == (0..MaxRows) \cup {U16Range}

(* ------------------------------- state -------------------------------- *)

VARIABLES
    data,        \* ArrayVector.data
    index,       \* ArrayVector.index
    pc,          \* "idle", "deser" (inside deserialize), "done" (it has returned), "panic"
    op,          \* the last operation called
    result,      \* what it returned: [tag, val]
    buffer,      \* what the last serialize call has put into its buffer
    hist,        \* rows pushed since new()/clear(), while only push was called
    stream,      \* the bytes behind the reader of the last deserialize call
    pos,         \* bytes that call has consumed
    msg,         \* how the stream was made (MsgNone, a wire message, a raw stream, a buffer)
    pre,         \* the vector as it was when the last deserialize call began
    target_num,  \* deserialize local: rows still expected (a wrapped value is kept as value - 2^UsizeBits)
    loc_index,   \* deserialize local `index`
    prev,        \* deserialize local: running sum of the deltas
    loc_data,    \* deserialize local `data`
    last_index,  \* deserialize local: last end offset of the previous block
    scalar,      \* the integer scalar wrapper last constructed: [type, val]
    cast         \* the last conversion of it to a primitive: [done, signed, bits, some, val]

self_vars == <<data, index>>
call_vars == <<op, result, buffer>>
reader_vars == <<stream, pos, msg, pre>>
local_vars == <<target_num, loc_index, prev, loc_data, last_index>>
cast_vars == <<scalar, cast>>
vars == <<data, index, pc, op, result, buffer, hist,
          stream, pos, msg, pre, target_num, loc_index, prev, loc_data, last_index,
          scalar, cast>>

Ok(v) == [tag |-> "Ok", val |-> v]
Err(kind) == [tag |-> kind, val |-> 0]

Last(s) == s[Len(s)]

MsgNone == [kind |-> "none", order |-> "le", blocks |-> << >>, trail |-> 0]

\* a 64-bit two's complement word, as four 16-bit limbs, low limb first
Zero64 == <<0, 0, 0, 0>>

\* no scalar wrapper has been constructed, nothing has been converted
NoScalar == [type |-> "none", val |-> Zero64]
NoCast == [done |-> FALSE, signed |-> TRUE, bits |-> 8, some |-> FALSE, val |-> Zero64]

\* no deserialize call is in progress or remembered
NoReader ==
    /\ stream' = << >>
    /\ pos' = 0
    /\ msg' = MsgNone
    /\ pre' = [index |-> << >>, data |-> << >>]

\* the locals of deserialize do not exist outside the call
NoLocals ==
    /\ target_num' = 0
    /\ loc_index' = << >>
    /\ prev' = 0
    /\ loc_data' = << >>
    /\ last_index' = 0

(* ------------------------ ArrayVector methods ------------------------- *)

\* ArrayVector::len
len == Len(index)

\* ArrayVector::is_empty
is_empty == data = << >>

\* ArrayVectorImpl::is_empty, through the len() that dispatch_len! forwards to ArrayVector::len
ImplIsEmpty == len = 0

\* Index::index: the slice data[start..end]; slicing panics when start > end or end > data.len()
RowStart(id) == IF id = 0 THEN 0 ELSE index[id]
RowEnd(id) == index[id + 1]
RowPanics(id) == RowStart(id) > RowEnd(id) \/ RowEnd(id) > Len(data)
Row(id) == SubSeq(data, RowStart(id) + 1, RowEnd(id))

Init ==
    /\ data = << >>
    /\ index = << >>
    /\ pc = "idle"
    /\ op = "new"
    /\ result = Ok(0)
    /\ buffer = << >>
    /\ hist = [pure |-> TRUE, rows |-> << >>]
    /\ stream = << >>
    /\ pos = 0
    /\ msg = MsgNone
    /\ pre = [index |-> << >>, data |-> << >>]
    /\ target_num = 0
    /\ loc_index = << >>
    /\ prev = 0
    /\ loc_data = << >>
    /\ last_index = 0
    /\ scalar = NoScalar
    /\ cast = NoCast

\* push that records the length of the row instead of its end offset
PushMutant(value) ==
    /\ pc = "idle"
    /\ Len(index) < MaxRows
    /\ Len(data) + Len(value) <= MaxData
    /\ data' = data \o value
    /\ index' = Append(index, Len(value))
    /\ op' = "push"
    /\ result' = Ok(0)
    /\ buffer' = << >>
    /\ hist' = IF hist.pure THEN [hist EXCEPT !.rows = Append(@, value)] ELSE hist
    /\ NoReader
    /\ UNCHANGED <<pc, local_vars, cast_vars>>

Push(value) ==
    /\ pc = "idle"
    /\ Len(index) < MaxRows
    /\ Len(data) + Len(value) <= MaxData
    /\ data' = data \o value
    /\ index' = Append(index, Len(data'))
    /\ op' = "push"
    /\ result' = Ok(0)
    /\ buffer' = << >>
    /\ hist' = IF hist.pure THEN [hist EXCEPT !.rows = Append(@, value)] ELSE hist
    /\ NoReader
    /\ UNCHANGED <<pc, local_vars, cast_vars>>

Clear ==
    /\ pc = "idle"
    /\ data' = << >>
    /\ index' = << >>
    /\ op' = "clear"
    /\ result' = Ok(0)
    /\ buffer' = << >>
    /\ hist' = [pure |-> TRUE, rows |-> << >>]
    /\ NoReader
    /\ UNCHANGED <<pc, local_vars, cast_vars>>

\* Vec::resize(new_len, value)
VecResize(v, new_len, value) ==
    IF new_len <= Len(v)
    THEN SubSeq(v, 1, new_len)
    ELSE v \o [i \in 1..(new_len - Len(v)) |-> value]

\* the fill value taken from the number of rows instead of the last end offset
ResizeFillMutant == IF ~is_empty THEN Len(index) ELSE 0

\* the value resize fills new rows with
ResizeFill == IF ~is_empty THEN Last(index) ELSE 0

Resize(new_len) ==
    /\ pc = "idle"
    /\ op' = "resize"
    /\ buffer' = << >>
    /\ hist' = [pure |-> FALSE, rows |-> << >>]
    /\ NoReader
    /\ UNCHANGED <<local_vars, cast_vars>>
    /\ IF ~is_empty /\ index = << >>
       THEN \* index.last().unwrap() on an empty index
            /\ pc' = "panic"
            /\ result' = Err("Panic")
            /\ UNCHANGED <<data, index>>
       ELSE /\ index' = VecResize(index, new_len, ResizeFill)
            /\ result' = Ok(0)
            /\ UNCHANGED <<data, pc>>

(* ------------------------------ encoding ------------------------------ *)

Reverse(s) == [k \in 1..Len(s) |-> s[Len(s) + 1 - k]]

RECURSIVE Flatten(_)
Flatten(ss) == IF ss = << >> THEN << >> ELSE Head(ss) \o Flatten(Tail(ss))

\* an unsigned number in n bytes of the given byte order
UintBytes(x, n, order) ==
    LET le == [k \in 1..n |-> (x \div (ByteRange ^ (k - 1))) % ByteRange]
    IN IF order = "le" THEN le ELSE Reverse(le)

\* `x as u16`
AsU16(x) == x % U16Range

\* an i16 as the u16 of the same bits
I16Bits(v) == v % U16Range

\* the delta serialize_le writes for row i: `*index as u32 - prev`
SerDelta(idx, i) == idx[i] - (IF i = 1 THEN 0 ELSE idx[i - 1])

\* what serialize_le puts into the buffer, one entry <<bytes, value, order>> per put call:
\* put_u16_le, put_u8, put_i8, a put_u32_le per row, a put_i16_le per element
SerializeLeFields(idx, dat) ==
    IF Len(idx) = 0 THEN << >>
    ELSE << <<2, AsU16(Len(idx)), "le">>, <<1, SizeOfIndexData, "le">>, <<1, 0, "le">> >>
         \o [i \in 1..Len(idx) |-> <<4, SerDelta(idx, i), "le">>]
         \o [j \in 1..Len(dat) |-> <<ElemSize, I16Bits(dat[j]), "le">>]

\* the bytes of a buffer
BufferBytes(b) == Flatten([i \in 1..Len(b) |-> UintBytes(b[i][2], b[i][1], b[i][3])])

\* Serialize::serialize (big-endian entry point)
Serialize ==
    /\ pc = "idle"
    /\ op' = "serialize"
    /\ result' = Err("Unsupported")
    /\ buffer' = << >>
    /\ NoReader
    /\ UNCHANGED <<data, index, pc, hist, local_vars, cast_vars>>

\* Serialize::serialize_le
SerializeLe ==
    /\ pc = "idle"
    /\ op' = "serialize_le"
    /\ result' = IF len = 0 THEN Ok(0) ELSE Ok(1)
    /\ buffer' = SerializeLeFields(index, data)
    /\ NoReader
    /\ UNCHANGED <<data, index, pc, hist, local_vars, cast_vars>>

(* ------------------------- streams to decode -------------------------- *)

\* most rows of one wire message
MaxWireRows == 2

\* rows a wire message is made of
WireRows == {<< >>, <<-2, 1>>}

\* index widths of the blocks of a wire message
WireWidths == {1, 2, 4}

\* one block: count:u16, index_width:u8, reserved:i8, the row sizes, the row data
EncodeBlock(b, order) ==
    UintBytes(Len(b.rows), 2, order) \o <<b.w, 0>>
    \o Flatten([i \in 1..Len(b.rows) |-> UintBytes(Len(b.rows[i]), b.w, order)])
    \o Flatten([i \in 1..Len(b.rows) |->
                  Flatten([j \in 1..Len(b.rows[i]) |->
                             UintBytes(I16Bits(b.rows[i][j]), ElemSize, order)])])

\* a message: its blocks, then bytes that belong to whatever follows on the wire
EncodeMsg(m) ==
    Flatten([i \in 1..Len(m.blocks) |-> EncodeBlock(m.blocks[i], m.order)])
    \o [k \in 1..m.trail |-> 1]

RowSeqs == UNION {[1..n -> WireRows] : n \in 0..MaxWireRows}

\* index widths of the two blocks of a split message
WidthPairs == {<<1, 2>>, <<2, 4>>, <<4, 1>>}

\* the rows as one block, or split in two consecutive blocks (either may be empty)
BlockSeqs ==
    {<<[rows |-> rs, w |-> w]>> : rs \in RowSeqs, w \in WireWidths}
    \cup {<<[rows |-> SubSeq(x[1], 1, x[2]), w |-> x[3][1]],
            [rows |-> SubSeq(x[1], x[2] + 1, Len(x[1])), w |-> x[3][2]]>> :
            x \in {y \in RowSeqs \X (0..MaxWireRows) \X WidthPairs : y[2] <= Len(y[1])}}

WireMsgs ==
    {[kind |-> "wire", order |-> o, blocks |-> bs, trail |-> t] :
        o \in {"le", "be"}, bs \in BlockSeqs, t \in {0, 1}}

\* streams that are not the encoding of rows
RawStreams ==
    { <<2, 0, 4, 0,  0, 0, 0, 128,  0, 0, 0, 128>>,   \* two deltas of 2^31
      <<0, 0, 8, 0,  1, 0, 1, 0,  0>>,                \* width 8 with count 0, then a good block
      <<1, 0, 8, 0,  0, 0, 0, 0, 0, 0, 0, 0>>,        \* width 8 with count 1
      <<0, 0, 1, 0>>,                                  \* nothing but an empty block
      <<1, 0>>,                                        \* cut inside the header
      <<1, 0, 2, 0,  1>>,                              \* cut inside a delta
      <<1, 0, 1, 0,  1,  1>> }                         \* cut inside the data

(* ------------------------------ decoding ------------------------------ *)

\* number of values of the high limb of a usize
UsizeHiRange == 2 ^ (UsizeBits - 16)

\* a usize in two 16-bit limbs <<hi, lo>>
Wide(n) == <<n \div U16Range, n % U16Range>>
\* a wide usize below 2^31
Fits(w) == w[1] < U16Range \div 2
ToNat(w) == w[1] * U16Range + w[2]

\* usize::checked_add
CheckedAdd(a, b) ==
    LET lo == a[2] + b[2]
        hi == a[1] + b[1] + (lo \div U16Range)
    IN IF hi >= UsizeHiRange
       THEN [ok |-> FALSE, val |-> <<0, 0>>]
       ELSE [ok |-> TRUE, val |-> <<hi, lo % U16Range>>]

\* `let x = e;`: e is computed once and x names its value
Bind(e, F(_)) == CHOOSE r \in {F(x) : x \in {e}} : TRUE

\* n more bytes can be read after p
Avail(s, p, n) == p + n <= Len(s)

\* read_u16_le
ReadU16LE(s, p) == s[p + 1] + ByteRange * s[p + 2]

\* the match on size_of_index_data, with the two-byte delta read high byte first
ReadDeltaMutant(s, p, size) ==
    CASE size = 1 -> IF Avail(s, p, 1)
                     THEN [st |-> "ok", pos |-> p + 1, val |-> <<0, s[p + 1]>>]
                     ELSE [st |-> "Io", pos |-> p, val |-> <<0, 0>>]
      [] size = 2 -> IF Avail(s, p, 2)
                     THEN [st |-> "ok", pos |-> p + 2,
                           val |-> <<0, ByteRange * s[p + 1] + s[p + 2]>>]
                     ELSE [st |-> "Io", pos |-> p, val |-> <<0, 0>>]
      [] size = 4 -> IF Avail(s, p, 4)
                     THEN [st |-> "ok", pos |-> p + 4,
                           val |-> <<ReadU16LE(s, p + 2), ReadU16LE(s, p)>>]
                     ELSE [st |-> "Io", pos |-> p, val |-> <<0, 0>>]
      [] OTHER -> [st |-> "InvalidData", pos |-> p, val |-> <<0, 0>>]

\* the match on size_of_index_data: one delta, as a wide usize
ReadDelta(s, p, size) ==
    CASE size = 1 -> IF Avail(s, p, 1)
                     THEN [st |-> "ok", pos |-> p + 1, val |-> <<0, s[p + 1]>>]
                     ELSE [st |-> "Io", pos |-> p, val |-> <<0, 0>>]
      [] size = 2 -> IF Avail(s, p, 2)
                     THEN [st |-> "ok", pos |-> p + 2, val |-> <<0, ReadU16LE(s, p)>>]
                     ELSE [st |-> "Io", pos |-> p, val |-> <<0, 0>>]
      [] size = 4 -> IF Avail(s, p, 4)
                     THEN [st |-> "ok", pos |-> p + 4,
                           val |-> <<ReadU16LE(s, p + 2), ReadU16LE(s, p)>>]
                     ELSE [st |-> "Io", pos |-> p, val |-> <<0, 0>>]
      [] OTHER -> [st |-> "InvalidData", pos |-> p, val |-> <<0, 0>>]

\* the error the overflow of the running sum is reported with
OverflowError == "Unsupported"

\* for _ in 0..len: read a delta, add it to prev, push prev
RECURSIVE DeltaLoop(_, _, _, _, _, _)
DeltaLoop(s, p, size, n, pr, acc) ==
    IF n = 0 THEN [st |-> "ok", pos |-> p, prev |-> pr, index |-> acc]
    ELSE Bind(ReadDelta(s, p, size), LAMBDA d :
         IF d.st # "ok" THEN [st |-> d.st, pos |-> d.pos, prev |-> pr, index |-> acc]
         ELSE Bind(CheckedAdd(pr, d.val), LAMBDA a :
              IF ~a.ok THEN [st |-> OverflowError, pos |-> d.pos, prev |-> pr, index |-> acc]
              ELSE DeltaLoop(s, d.pos, size, n - 1, a.val, Append(acc, a.val))))

\* read_i16 / read_i16_le
ReadI16(s, p, entry) ==
    LET u == IF entry = "deserialize_le"
             THEN s[p + 1] + ByteRange * s[p + 2]
             ELSE ByteRange * s[p + 1] + s[p + 2]
    IN IF u >= U16Range \div 2 THEN u - U16Range ELSE u

\* the elements the data loop of a block reads
ReadElems(s, p, n, entry) == [i \in 1..n |-> ReadI16(s, p + ElemSize * (i - 1), entry)]

\* the element count of a block, with the end of the previous block forgotten
TotalElementsMutant(cur_last_index, last) == cur_last_index

\* `let total_elements = cur_last_index - last_index`
TotalElements(cur_last_index, last) == cur_last_index - last

\* one pass of `while target_num > 0`, up to `target_num -= len`
ReadBlock(s, p, entry, idx, pr, last) ==
    IF ~Avail(s, p, 4) THEN [st |-> "Io", pos |-> Len(s)]
    ELSE LET count == ReadU16LE(s, p)
             size == s[p + 3]
         IN Bind(DeltaLoop(s, p + 4, size, count, Wide(pr), << >>), LAMBDA dl :
            IF dl.st # "ok" THEN [st |-> dl.st, pos |-> dl.pos]
            ELSE LET cur_last_index ==
                         IF dl.index # << >> THEN Last(dl.index)
                         ELSE IF idx # << >> THEN Wide(Last(idx)) ELSE <<0, 0>>
                 IN \* a total of 2^31 or more is more than any stream here holds
                    IF ~Fits(cur_last_index)
                       \/ ~Avail(s, dl.pos, ElemSize * TotalElements(ToNat(cur_last_index), last))
                    THEN [st |-> "Io", pos |-> Len(s)]
                    ELSE LET total_elements == TotalElements(ToNat(cur_last_index), last) IN
                         [st |-> "ok",
                          pos |-> dl.pos + ElemSize * total_elements,
                          len |-> count,
                          index |-> idx \o [i \in 1..Len(dl.index) |-> ToNat(dl.index[i])],
                          prev |-> ToNat(dl.prev),
                          last_index |-> ToNat(cur_last_index),
                          elems |-> ReadElems(s, dl.pos, total_elements, entry)])

Entries == {"deserialize", "deserialize_le"}

\* the call begins: `let mut target_num = self.index.len(); ...`
DeserializeBegin(entry, s, m) ==
    /\ pc = "idle"
    /\ Len(index) <= MaxRows
    /\ pc' = "deser"
    /\ op' = entry
    /\ result' = Ok(0)
    /\ buffer' = << >>
    /\ stream' = s
    /\ pos' = 0
    /\ msg' = m
    /\ pre' = [index |-> index, data |-> data]
    /\ target_num' = Len(index)
    /\ loc_index' = << >>
    /\ prev' = 0
    /\ loc_data' = << >>
    /\ last_index' = 0
    /\ UNCHANGED <<data, index, hist, cast_vars>>

\* deserialize on a wire message in the byte order of the entry point
DeserializeWire ==
    \E m \in WireMsgs :
        DeserializeBegin(IF m.order = "le" THEN "deserialize_le" ELSE "deserialize",
                         EncodeMsg(m), m)

\* deserialize on a stream that is not the encoding of rows
DeserializeRaw ==
    \E entry \in Entries, s \in RawStreams :
        DeserializeBegin(entry, s, [MsgNone EXCEPT !.kind = "raw"])

\* deserialize_le on what serialize_le has just written
DeserializeBuffer ==
    /\ op = "serialize_le"
    /\ Len(index) <= MaxRows
    /\ DeserializeBegin("deserialize_le", BufferBytes(buffer), [MsgNone EXCEPT !.kind = "buffer"])

\* an error return that leaves what was decoded so far in the receiver
DeserializeFailMutant(kind, p) ==
    /\ pc' = IF kind = "Panic" THEN "panic" ELSE "done"
    /\ result' = Err(kind)
    /\ pos' = p
    /\ index' = loc_index
    /\ data' = loc_data
    /\ NoLocals
    /\ UNCHANGED <<op, buffer, hist, stream, msg, pre, cast_vars>>

\* the call returns an error, or panics: the locals are dropped
DeserializeFail(kind, p) ==
    /\ pc' = IF kind = "Panic" THEN "panic" ELSE "done"
    /\ result' = Err(kind)
    /\ pos' = p
    /\ NoLocals
    /\ UNCHANGED <<data, index, op, buffer, hist, stream, msg, pre, cast_vars>>

\* one pass of the while loop
DeserializeBlock ==
    /\ pc = "deser"
    /\ target_num # 0
    /\ \E b \in {ReadBlock(stream, pos, op, loc_index, prev, last_index)} :
       IF b.st # "ok" THEN DeserializeFail(b.st, b.pos)
       ELSE IF target_num > 0 /\ b.len > target_num
       THEN \* `target_num -= len` underflows
            \/ DeserializeFail("Panic", b.pos)         \* overflow checks on
            \/ /\ target_num' = target_num - b.len     \* overflow checks off: it wraps
               /\ loc_index' = b.index
               /\ prev' = b.prev
               /\ loc_data' = loc_data \o b.elems
               /\ last_index' = b.last_index
               /\ pos' = b.pos
               /\ UNCHANGED <<data, index, pc, op, result, buffer, hist, stream, msg, pre, cast_vars>>
       ELSE /\ target_num' = target_num - b.len
            /\ loc_index' = b.index
            /\ prev' = b.prev
            /\ loc_data' = loc_data \o b.elems
            /\ last_index' = b.last_index
            /\ pos' = b.pos
            /\ UNCHANGED <<data, index, pc, op, result, buffer, hist, stream, msg, pre, cast_vars>>

\* the loop is left: `self.index = index; self.data = data; Ok(())`
DeserializeEnd ==
    /\ pc = "deser"
    /\ target_num = 0
    /\ index' = loc_index
    /\ data' = loc_data
    /\ pc' = "done"
    /\ result' = Ok(0)
    /\ hist' = [pure |-> FALSE, rows |-> << >>]
    /\ NoLocals
    /\ UNCHANGED <<op, buffer, stream, pos, msg, pre, cast_vars>>

\* the caller has the result and drops the reader
DeserializeReturn ==
    /\ pc = "done"
    /\ pc' = "idle"
    /\ NoReader
    /\ UNCHANGED <<data, index, op, result, buffer, hist, local_vars, cast_vars>>

Next ==
    \/ \E value \in PushRows : Push(value)
    \/ Clear
    \/ \E new_len \in ResizeLens : Resize(new_len)
    \/ Serialize
    \/ SerializeLe
    \/ DeserializeWire
    \/ DeserializeRaw
    \/ DeserializeBuffer
    \/ DeserializeBlock
    \/ DeserializeEnd
    \/ DeserializeReturn

Spec == Init /\ [][Next]_vars

\* A call that has begun is polled until it ends: the reader is a finite stream
\* whose reads complete, with the end of the stream reported as an error.
\* the calls that build a receiver by push and clear, and the deserialize calls
NextLive ==
    \/ \E value \in PushRows : Push(value)
    \/ Clear
    \/ DeserializeWire
    \/ DeserializeRaw
    \/ DeserializeBlock
    \/ DeserializeEnd
    \/ DeserializeReturn

SpecLive ==
    Init /\ [][NextLive]_vars /\ WF_vars(DeserializeBlock) /\ WF_vars(DeserializeEnd)


(* ---------------- integer scalar wrappers and ToPrimitive ---------------- *)

\* the primitive behind each integer wrapper: i8, i16, i32, i64
Widths == [Char |-> 8, Short |-> 16, Int |-> 32, Long |-> 64]
Wrappers == DOMAIN Widths

One64 == <<1, 0, 0, 0>>
MinusOne64 == [i \in 1..4 |-> U16Range - 1]

\* wrapping 64-bit addition and negation
Add64(a, b) ==
    LET c1 == a[1] + b[1]
        c2 == a[2] + b[2] + (c1 \div U16Range)
        c3 == a[3] + b[3] + (c2 \div U16Range)
        c4 == a[4] + b[4] + (c3 \div U16Range)
    IN <<c1 % U16Range, c2 % U16Range, c3 % U16Range, c4 % U16Range>>
Neg64(a) == Add64([i \in 1..4 |-> U16Range - 1 - a[i]], One64)

\* 2^k for k in 0..63
Pow2(k) == [i \in 1..4 |-> IF i = (k \div 16) + 1 THEN 2 ^ (k % 16) ELSE 0]

\* the sign bit of the word
IsNeg(a) == a[4] >= U16Range \div 2

\* a <= b on the words as unsigned / as signed integers
LeU(a, b) ==
    \/ a = b
    \/ \E i \in 1..4 : a[i] < b[i] /\ \A j \in (i + 1)..4 : a[j] = b[j]
LeS(a, b) == IF IsNeg(a) # IsNeg(b) THEN IsNeg(a) ELSE LeU(a, b)

\* iN::MIN, iN::MAX, uN::MAX (N < 64) as 64-bit words
MinS(w) == Neg64(Pow2(w - 1))
MaxS(w) == Add64(Pow2(w - 1), MinusOne64)
MaxU(w) == Add64(Pow2(w), MinusOne64)

\* `v as uN`: the low N bits of the word
Trunc(v, w) ==
    [i \in 1..4 |-> IF 16 * i <= w THEN v[i]
                    ELSE IF 16 * (i - 1) < w THEN v[i] % (2 ^ (w - 16 * (i - 1)))
                    ELSE 0]

\* an N-bit pattern read as unsigned whatever its top bit
SignExtendMutant(u, w) == u

\* an N-bit pattern read as iN: a set top bit stands for -2^(N-1)
SignExtend(u, w) ==
    IF w < 64 /\ ~LeS(u, MaxS(w)) THEN Add64(u, Neg64(Pow2(w))) ELSE u

\* `v as iN` / `v as uN`
AsCast(v, signed, w) == IF signed THEN SignExtend(Trunc(v, w), w) ELSE Trunc(v, w)

Some(v) == [some |-> TRUE, val |-> v]
None == [some |-> FALSE, val |-> Zero64]

\* a conversion in which the MIN of the wrapper's width stands for null
ToPrimitiveMutant(s, signed, w) ==
    LET v == s.val
        from == Widths[s.type]
    IN IF v = MinS(from) THEN None
       ELSE IF signed
       THEN IF from <= w \/ (LeS(MinS(w), v) /\ LeS(v, MaxS(w)))
            THEN Some(AsCast(v, signed, w)) ELSE None
       ELSE IF ~IsNeg(v) /\ (from <= w \/ LeS(v, MaxU(w)))
            THEN Some(AsCast(v, signed, w)) ELSE None

\* to_i8 .. to_u64 of a wrapper: the conversion of the primitive it holds, which
\* is Some(v as T) when v is within T's range and None otherwise
ToPrimitive(s, signed, w) ==
    LET v == s.val
        from == Widths[s.type]
    IN IF signed
       THEN IF from <= w \/ (LeS(MinS(w), v) /\ LeS(v, MaxS(w)))
            THEN Some(AsCast(v, signed, w)) ELSE None
       ELSE IF ~IsNeg(v) /\ (from <= w \/ LeS(v, MaxU(w)))
            THEN Some(AsCast(v, signed, w)) ELSE None

\* the values the tests convert: 42, 1024, 100000, 5000000000
TestValues == {<<42, 0, 0, 0>>, <<1024, 0, 0, 0>>, <<34464, 1, 0, 0>>, <<61952, 10757, 1, 0>>}

\* the values next to the ends of each primitive's range
Edges ==
    UNION {{MinS(w), Add64(MinS(w), One64), Add64(MinS(w), MinusOne64),
            MaxS(w), Add64(MaxS(w), One64), Add64(MaxS(w), MinusOne64)} : w \in {8, 16, 32, 64}}
    \cup UNION {{MaxU(w), Add64(MaxU(w), One64)} : w \in {8, 16, 32}}

\* v is a value of iN
InSigned(v, w) == LeS(MinS(w), v) /\ LeS(v, MaxS(w))

\* the values a wrapper is constructed with
Samples(type) ==
    {v \in TestValues \cup Edges \cup {Zero64, One64, MinusOne64} : InSigned(v, Widths[type])}

\* Char::new, Short::new, Int::new, Long::new
New(type, v) ==
    /\ pc = "idle"
    /\ scalar' = [type |-> type, val |-> v]
    /\ cast' = NoCast
    /\ UNCHANGED <<self_vars, pc, call_vars, hist, reader_vars, local_vars>>

\* to_i8, to_i16, to_i32, to_i64, to_u8, to_u16, to_u32, to_u64
Convert(signed, w) ==
    /\ scalar.type \in Wrappers
    /\ cast' = [done |-> TRUE, signed |-> signed, bits |-> w,
                some |-> ToPrimitive(scalar, signed, w).some,
                val |-> ToPrimitive(scalar, signed, w).val]
    /\ UNCHANGED <<scalar, self_vars, pc, call_vars, hist, reader_vars, local_vars>>

NextCast ==
    \/ \E type \in Wrappers : \E v \in Samples(type) : New(type, v)
    \/ \E signed \in BOOLEAN, w \in {8, 16, 32, 64} : Convert(signed, w)

SpecCast == Init /\ [][NextCast]_vars


(* ------------------------------- claims ------------------------------- *)

\* C1: in every reachable state, a non-empty index ends with data.len().
C1_IndexLastIsDataLen == index # << >> => Last(index) = Len(data)

\* C2: in every reachable state the index is non-decreasing, and slicing any row
\* of the vector does not panic.
C2_IndexNonDecreasing ==
    /\ \A i \in 2..Len(index) : index[i - 1] <= index[i]
    /\ \A id \in 0..(Len(index) - 1) : ~RowPanics(id)

\* resize has grown a vector that holds data: the new rows repeat the last end offset
C2_Witness ==
    /\ op = "resize"
    /\ pc = "idle"
    /\ Len(index) = MaxRows
    /\ Last(index) > 0
    /\ index[Len(index) - 1] = Last(index)

\* C3: after pushing rows r0..r(n-1) onto a new vector, len() is n and a[i] is
\* exactly r_i for every i < n, whatever was pushed after it.
C3_PushedRows ==
    hist.pure =>
        /\ len = Len(hist.rows)
        /\ \A i \in 1..Len(hist.rows) :
              ~RowPanics(i - 1) /\ Row(i - 1) = hist.rows[i]

\* two non-empty rows were pushed
C3_Witness ==
    /\ hist.pure
    /\ op = "push"
    /\ Len(hist.rows) = 2
    /\ hist.rows[1] # << >>
    /\ hist.rows[2] # << >>

\* rows of a vector given by its index and data
RowsOf(idx, dat) ==
    [i \in 1..Len(idx) |-> SubSeq(dat, (IF i = 1 THEN 0 ELSE idx[i - 1]) + 1, idx[i])]

\* C4: deserialize_le on what serialize_le wrote, into a receiver of as many rows,
\* succeeds, gives the same rows, and consumes exactly the bytes written.
C4_RoundTripLe ==
    (pc = "done" /\ msg.kind = "buffer") =>
        /\ result.tag = "Ok"
        /\ RowsOf(index, data) = RowsOf(pre.index, pre.data)
        /\ pos = Len(stream)

\* C5: serialize succeeds whenever serialize_le does (it always does) and puts
\* the fields serialize_le puts, each in big-endian byte order.
C5_SerializeMirrorsLe ==
    op = "serialize" =>
        /\ result.tag = "Ok"
        /\ LET le == SerializeLeFields(index, data) IN
           buffer = [i \in 1..Len(le) |-> <<le[i][1], le[i][2], "be">>]

\* C6: for a non-empty vector serialize_le writes one block: count = len(),
\* index_width 4, reserved 0, then len() deltas of 4 bytes, delta i being the
\* size of row i, then every data element in order; nothing is truncated.
C6_SingleBlockLayout ==
    (op = "serialize_le" /\ len > 0) =>
        /\ Len(buffer) = 3 + len + Len(data)
        /\ buffer[1] = <<2, len, "le">>
        /\ buffer[2] = <<1, 4, "le">>
        /\ buffer[3] = <<1, 0, "le">>
        /\ \A i \in 1..len :
              buffer[3 + i] = <<4, index[i] - (IF i = 1 THEN 0 ELSE index[i - 1]), "le">>
        /\ \A j \in 1..Len(data) :
              /\ buffer[3 + len + j][1] = ElemSize
              /\ ReadI16(BufferBytes(<<buffer[3 + len + j]>>), 0, "deserialize_le") = data[j]

\* the deltas of the block at the reader's position, as far as the stream holds them
NextCount == ReadU16LE(stream, pos)
NextWidth == stream[pos + 3]
NextDeltasHeld ==
    IF NextCount * NextWidth <= Len(stream) - pos - 4
    THEN NextCount ELSE (Len(stream) - pos - 4) \div NextWidth
NextDeltaHi(i) ==
    IF NextWidth = 4 THEN ReadU16LE(stream, pos + 4 + 4 * (i - 1) + 2) ELSE 0
NextDeltaLo(i) ==
    IF NextWidth = 1 THEN stream[pos + 4 + i]
    ELSE ReadU16LE(stream, pos + 4 + NextWidth * (i - 1))

RECURSIVE SumTo(_, _)
SumTo(f, k) == IF k = 0 THEN 0 ELSE f[k] + SumTo(f, k - 1)

\* prev plus the first k deltas of the next block exceeds usize::MAX
SumExceedsUsize(k) ==
    LET lo == (prev % U16Range) + SumTo([i \in 1..k |-> NextDeltaLo(i)], k)
        hi == (prev \div U16Range) + SumTo([i \in 1..k |-> NextDeltaHi(i)], k)
    IN hi + (lo \div U16Range) >= UsizeHiRange

\* the next pass of the loop makes the running sum overflow
SumOverflows ==
    /\ pc = "deser"
    /\ target_num # 0
    /\ Avail(stream, pos, 4)
    /\ NextWidth \in {1, 2, 4}
    /\ \E k \in 1..NextDeltasHeld : SumExceedsUsize(k)

\* C7: when the running sum of the deltas overflows, the call fails with InvalidData.
C7_OverflowIsInvalidData ==
    [][SumOverflows => (pc' = "done" /\ result'.tag = "InvalidData")]_vars

\* the next pass of the loop reads a header whose index_width is not 1, 2 or 4
BadWidthAhead ==
    /\ pc = "deser"
    /\ target_num # 0
    /\ Avail(stream, pos, 4)
    /\ NextWidth \notin {1, 2, 4}

\* C8: a call that reads a block header whose index_width is not 1, 2 or 4 fails
\* with InvalidData, whatever the count of that block.
C8_BadWidthIsInvalidData ==
    [][BadWidthAhead => (pc' = "done" /\ result'.tag = "InvalidData")]_vars

\* what the first pass of deserialize_le reads from the one block of the message
\* when its row sizes are written in w bytes
AsWidth(w) ==
    ReadBlock(EncodeMsg([msg EXCEPT !.blocks[1].w = w]), 0, "deserialize_le", << >>, 0, 0)

\* deserialize_le has decoded a message of one block into a receiver of as many rows
OneBlockDecoded ==
    /\ pc = "done"
    /\ op = "deserialize_le"
    /\ msg.kind = "wire"
    /\ msg.order = "le"
    /\ Len(msg.blocks) = 1
    /\ Len(msg.blocks[1].rows) = Len(pre.index)

\* C9: a block of rows whose sizes fit in one byte decodes through deserialize_le
\* to the same index and the same data whether its index_width is 1, 2 or 4.
C9_WidthsDecodeAlike ==
    OneBlockDecoded =>
        /\ result.tag = "Ok"
        /\ \A w \in WireWidths :
              /\ AsWidth(w).st = "ok"
              /\ AsWidth(w).index = index
              /\ AsWidth(w).elems = data

\* a block of two rows, one of them empty, sent with two-byte row sizes
C9_Witness ==
    /\ OneBlockDecoded
    /\ msg.blocks[1].w = 2
    /\ msg.blocks[1].rows = << <<-2, 1>>, << >> >>
    /\ index = <<2, 2>>

\* all rows of the message, and the rows of its first k blocks
MsgRows(k) == Flatten([i \in 1..k |-> msg.blocks[i].rows])

\* the blocks a receiver of all the rows needs: up to the one that completes them
NeededBlocks ==
    CHOOSE k \in 0..Len(msg.blocks) :
        /\ Len(MsgRows(k)) = Len(MsgRows(Len(msg.blocks)))
        /\ \A j \in 0..(k - 1) : Len(MsgRows(j)) < Len(MsgRows(Len(msg.blocks)))

NeededBytes ==
    Len(Flatten([i \in 1..NeededBlocks |-> EncodeBlock(msg.blocks[i], msg.order)]))

\* what one pass reads when all the rows of the message are sent as a single block
AsOneBlock ==
    ReadBlock(EncodeBlock([rows |-> MsgRows(Len(msg.blocks)), w |-> 4], "le"),
              0, "deserialize_le", << >>, 0, 0)

\* deserialize_le has decoded a message into a receiver of as many rows as it carries
SplitDecoded ==
    /\ pc = "done"
    /\ op = "deserialize_le"
    /\ msg.kind = "wire"
    /\ msg.order = "le"
    /\ Len(MsgRows(Len(msg.blocks))) = Len(pre.index)

C11_IsEmptyIffNoRows ==
    /\ is_empty <=> (len = 0)
    /\ is_empty <=> ImplIsEmpty

\* the value is within the range of the target primitive
Representable(v, signed, w) ==
    IF signed THEN LeS(MinS(w), v) /\ LeS(v, MaxS(w))
    ELSE ~IsNeg(v) /\ (w = 64 \/ LeS(v, MaxU(w)))

\* C12: converting a wrapper to the signed primitive of its own width returns
\* Some(v) for every v, MIN and MAX included; converting a non-negative v to the
\* unsigned primitive of its own width returns Some(v).
C12_SameWidthIsSome ==
    (cast.done /\ cast.bits = Widths[scalar.type]) =>
        ((cast.signed \/ ~IsNeg(scalar.val)) => (cast.some /\ cast.val = scalar.val))

\* Long::new(i64::MIN).to_i64() has returned
C12_Witness ==
    /\ scalar = [type |-> "Long", val |-> <<0, 0, 0, 32768>>]
    /\ cast.done
    /\ cast.signed
    /\ cast.bits = 64
    /\ cast.some

\* C13: converting a wrapper to a primitive of another width returns Some(v)
\* whenever v is within the target's range: widening keeps the sign, narrowing an
\* in-range value is exact.
C13_CrossWidthKeepsValue ==
    (cast.done /\ cast.bits # Widths[scalar.type]
        /\ Representable(scalar.val, cast.signed, cast.bits)) =>
        (cast.some /\ cast.val = scalar.val)

\* Short::new(-1).to_i32() has returned
C13_Witness ==
    /\ scalar = [type |-> "Short", val |-> MinusOne64]
    /\ cast.done
    /\ cast.signed
    /\ cast.bits = 32
    /\ cast.some

\* the whole call as a function of the stream and the rows expected: the loop of
\* DeserializeBlock run to its end ("Underflow" where `target_num -= len` underflows)
RECURSIVE DecodeAll(_, _, _, _, _, _, _, _)
DecodeAll(s, p, entry, t, idx, pr, dat, last) ==
    IF t = 0 THEN [tag |-> "Ok", index |-> idx, data |-> dat, pos |-> p]
    ELSE LET b == ReadBlock(s, p, entry, idx, pr, last) IN
         IF b.st # "ok" THEN [tag |-> b.st, index |-> << >>, data |-> << >>, pos |-> b.pos]
         ELSE IF b.len > t
              THEN [tag |-> "Underflow", index |-> << >>, data |-> << >>, pos |-> b.pos]
              ELSE DecodeAll(s, b.pos, entry, t - b.len, b.index, b.prev,
                             dat \o b.elems, b.last_index)

\* what deserialize_le makes of the blocks of the message sent little-endian
LittleEndianTwin ==
    DecodeAll(EncodeMsg([msg EXCEPT !.order = "le"]), 0, "deserialize_le",
              Len(pre.index), << >>, 0, << >>, 0)

\* C14: deserialize on the blocks sent with every multi-byte field big-endian
\* gives the vector deserialize_le gives on the same blocks sent little-endian.
C14_ByteOrderOnly ==
    (pc \in {"done", "panic"} /\ op = "deserialize" /\ msg.kind = "wire" /\ msg.order = "be") =>
        (LittleEndianTwin.tag = "Ok" =>
            /\ pc = "done"
            /\ result.tag = "Ok"
            /\ index = LittleEndianTwin.index
            /\ data = LittleEndianTwin.data)

\* C15: when deserialize / deserialize_le returns an error, the receiver's index
\* and data are what they were before the call.
C15_ErrorLeavesReceiver ==
    (pc = "done" /\ op \in Entries /\ result.tag # "Ok") =>
        /\ index = pre.index
        /\ data = pre.data

\* a receiver of two rows that holds data; one block of one row was decoded,
\* then the stream ended
C15_Witness ==
    /\ pc = "done"
    /\ op = "deserialize_le"
    /\ result.tag = "Io"
    /\ msg.kind = "wire"
    /\ Len(msg.blocks) = 1
    /\ msg.blocks[1].rows = << <<-2, 1>> >>
    /\ msg.trail = 0
    /\ Len(pre.index) = 2
    /\ pre.data # << >>
    /\ pos = Len(stream)

\* C16: the count of rows still expected never goes below zero (no panic, no
\* wrap-around at `target_num -= len`), and a successful call leaves as many
\* rows as the receiver had before it.
C16_NoUnderflow ==
    /\ target_num >= 0
    /\ ~(pc = "panic" /\ op \in Entries)
    /\ (pc = "done" /\ op \in Entries /\ result.tag = "Ok") => len = Len(pre.index)

\* C17: a call on a finite stream ends by returning Ok or an error, and every
\* pass of its loop consumes input.
C17_ReturnsOnFiniteStream ==
    /\ (pc = "deser") ~> (pc = "done")
    /\ [][(pc = "deser" /\ pc' = "deser") => pos' > pos]_vars

\* a call on a finite stream ends, by a return or by a panic
CallEnds == (pc = "deser") ~> (pc \in {"done", "panic"})

\* every pass of the loop that does not end the call consumes input
PassConsumes == [][(pc = "deser" /\ pc' = "deser") => pos' > pos]_vars


====
